---- MODULE Spec2Model ----
(***************************************************************************)
(* A model of pyscroll's scrolling tile renderer:                          *)
(*   pyscroll/renderer.py  AbstractRenderer / OrthogonalRenderer           *)
(*   pyscroll/quadtree.py  FastQuadTree                                    *)
(* The source is Python 2 (renderer.py:274 is a Python 2 raise statement), *)
(* so "/" between integers is floor division and round() rounds halves     *)
(* away from zero.  Requested centre points are kept in half pixels so     *)
(* that the rounding of _center_map is a real conversion; everything else  *)
(* is in whole pixels or whole tiles.  The colorkey is the constructor's   *)
(* default (None), so _blit_tiles takes its second loop.                   *)
(***************************************************************************)
EXTENDS Integers, Sequences, FiniteSets, TLC

\* ---------------------------------------------------------------- bounds
\* tile size in pixels reported by the data source (tile_width, tile_height)
TileW == 2
TileH == 2
\* map size in tiles reported by the data source (width, height)
MapW == 4
MapH == 4
\* largest padding the constructor is given
MaxPadding == 2
\* center() calls between two draws are counted up to this number
MaxCalls == 2

\* Python's None is the empty tuple; a value that may be None is held as the
\* one-element tuple Some(v), so that the two can be told apart
None == << >>
Some(v) == << v >>

\* what a cell of a surface can hold besides a tile image (an image is named
\* by the position << x, y, layer >> it belongs to)
BlankPixels == << "blank" >>
DefaultTile == << "default" >>
MixedPixels == << "mixed" >>
ValueError == << "ValueError" >>

\* ------------------------------------------------------- python helpers
Max(a, b) == IF a >= b THEN a ELSE b
Min(a, b) == IF a <= b THEN a ELSE b
Abs(a) == IF a >= 0 THEN a ELSE -a

\* int(round(i, 0)) of the value h/2 (Python 2: halves round away from zero)
PyRound(h) ==
    IF h % 2 = 0 THEN h \div 2
    ELSE IF h > 0 THEN (h + 1) \div 2 ELSE (h - 1) \div 2

\* a sequence given as a function, as the tuple it is
Seq0(s) == s \o << >>

\* xrange_(a, b) and xrange_(a, b, -1) as sequences
XRange(a, b) == Seq0([i \in 1..Max(0, b - a) |-> a + i - 1])
XRangeDown(a, b) == Seq0([i \in 1..Max(0, a - b) |-> a - i + 1])

\* itertools.product(xs, ys, ls): first argument outermost, last innermost
Product(xs, ys, ls) ==
    LET nx == Len(xs)
        ny == Len(ys)
        nl == Len(ls)
    IN  IF nx = 0 \/ ny = 0 \/ nl = 0 THEN << >>
        ELSE Seq0([k \in 1..(nx * ny * nl) |->
                    << xs[((k - 1) \div (ny * nl)) + 1],
                       ys[(((k - 1) \div nl) % ny) + 1],
                       ls[((k - 1) % nl) + 1] >>])

\* itertools.chain(a, b)
Chain(a, b) == a \o b

\* pygame.Rect as a record; right and bottom are derived
Rect(l, t, w, h) == [left |-> l, top |-> t, w |-> w, h |-> h]
Right(r) == r.left + r.w
Bottom(r) == r.top + r.h
Move(r, dx, dy) == [r EXCEPT !.left = r.left + dx, !.top = r.top + dy]

\* -------------------------------------------------------------- inputs
\* the data sources the renderer is constructed with: map size in tiles,
\* the visible tile layers (ascending), and whether some in-range cells
\* hold no tile
DataSources ==
    { [width |-> MapW, height |-> MapH, layers |-> << 0 >>, sparse |-> FALSE],
      [width |-> MapW, height |-> MapH, layers |-> << 0, 1, 3 >>, sparse |-> TRUE] }

\* viewport sizes in pixels given to the size setter: one smaller than the
\* map, one wider than the map
Sizes == { << 2 * TileW, 2 * TileH >>,
           << (MapW + 1) * TileW, 2 * TileH >> }

\* requested centre points, in half pixels: outside the map on either side,
\* the origin, whole tiles apart along one axis and along both, and between
\* two pixels
Points == { << -5, -5 >>, << 0, 0 >>, << 3, 3 >>, << 4, 4 >>, << 8, 4 >>,
            << 4, 8 >>, << 9, 8 >>, << 12, 12 >>, << 17, 4 >>, << 4, 17 >> }

\* ----------------------------------------------------------- data source
\* data.get_tile_image(position) of the wrapped map: a position outside the
\* map raises ValueError, an empty cell gives None, any other cell its image
\* (an image is named by the position it belongs to)
GetTileImage(d, pos) ==
    LET x == pos[1]
        y == pos[2]
        l == pos[3]
    IN  IF x < 0 \/ x >= d.width \/ y < 0 \/ y >= d.height THEN ValueError
        ELSE IF ~d.sparse THEN pos
        ELSE IF l = 0 THEN (IF x = 2 /\ y = 1 THEN None ELSE pos)
        ELSE IF l = 1 THEN (IF x = y THEN pos ELSE None)
        ELSE (IF x = 1 THEN pos ELSE None)

\* ---------------------------------------------------------------- state
VARIABLES
    \* AbstractRenderer's public values and constructor arguments
    data, padding, clamp_camera, flush_on_draw,
    \* AbstractRenderer's internal names
    size, view, half_width, half_height, offset_x, offset_y,
    previous_x, previous_y, buffer, idle, blank, centered_point, queue,
    \* history: the last operation by name ("init", "size", "center", "draw",
    \* "hit", "update_queue", "queue_tile", "update", "scroll", ...),
    \* the point of the last center() ever, the number of center() calls
    \* since the previous draw (counted up to MaxCalls), what the last draw
    \* did, and whether the last two draws each followed a center() of the
    \* same point; the exception the last operation raised, if any; and the
    \* entries callers gave to update_queue() and queue_tile() that no
    \* flush has taken yet
    op, want, calls, drawn, repeat, raised, pending,
    \* FastQuadTree under test: items, depth, boundary, query and hit result
    qt_items, qt_depth, qt_boundary, qt_query, qt_hits,
    \* ScrollGroup._size of the group drawing the renderer
    group_size

rvars == << data, padding, clamp_camera, flush_on_draw, size, view,
            half_width, half_height, offset_x, offset_y, previous_x,
            previous_y, buffer, idle, blank, centered_point, queue >>
hvars == << op, want, calls, drawn, repeat, raised, pending >>
qvars == << qt_items, qt_depth, qt_boundary, qt_query, qt_hits >>
gvars == << group_size >>
vars == << rvars, hvars, qvars, gvars >>

\* self.map_rect: the pixel size of the entire map
MapRect == Rect(0, 0, data.width * TileW, data.height * TileH)

\* the pixel size of self._buffer, and the tile cells it spans (the last
\* column or row is a partial cell when the size is no multiple of a tile)
BufferW == size[1] + TileW * padding
BufferH == size[2] + TileH * padding
GridW == (BufferW + TileW - 1) \div TileW
GridH == (BufferH + TileH - 1) \div TileH
Cells == (0..(GridW - 1)) \X (0..(GridH - 1))
\* the cells of the view rectangle, which are whole cells of the buffer
ViewCells == (0..(view.w - 1)) \X (0..(view.h - 1))

\* what a draw leaves in the history before anything is known: the point
\* given by center() since the draw before it and the number of such calls,
\* the pending point it found, what it did ("blank": full redraw, "same":
\* reconciled without a change, "moved": reconciled, "none"), the view's
\* move in tiles, the tiles it enqueued, the positions it asked the data
\* source for, whether view, offset or buffer changed, what it returned,
\* the drawables it was passed and, for each of them, the (cell, layer)
\* pairs of the tiles it blitted back after all the drawables, the entries
\* callers had queued before it and the entries its flushes went through,
\* in order, the world rectangle of the sprite a ScrollGroup drew, the sum
\* of the vectors of the scroll() calls that came just before it and the
\* centre (_previous_x, _previous_y) it found
NoDraw == [given |-> None, calls |-> 0, point |-> None, kind |-> "none",
           dx |-> 0, dy |-> 0,
           enq |-> << >>, req |-> {}, changed |-> FALSE, dirty |-> "None",
           surfaces |-> << >>, paint |-> << >>,
           pending |-> << >>, flushed |-> << >>, sprite |-> << >>,
           scrolled |-> << 0, 0 >>, before |-> << >>]

\* ------------------------------------------------------------- renderer
\* _get_tile_image: the data source's image, the default tile when the data
\* source raises ValueError
GetTile(pos) ==
    LET t == GetTileImage(data, pos)
    IN  IF t = ValueError THEN DefaultTile ELSE t

\* a filled queue that walks the view row by row
GetFilledQueueRowsOuter(v) ==
    LET p == Product(XRange(v.top, Bottom(v)), XRange(v.left, Right(v)), data.layers)
    IN  Seq0([k \in 1..Len(p) |-> << p[k][2], p[k][1], p[k][3] >>])

\* _get_filled_queue: every tile of the view, for every visible layer
GetFilledQueue(v) ==
    Product(XRange(v.left, Right(v)), XRange(v.top, Bottom(v)), data.layers)

\* edge tiles that leave out the column band when the view also moved
\* along the rows
GetEdgeTilesOneBand(v, x, y) ==
    LET layers == data.layers
        horiz == IF x > 0
                 THEN Some(Product(XRange(Right(v) - x - 1, Right(v)),
                                   XRange(v.top, Bottom(v)), layers))
                 ELSE IF x < 0
                 THEN Some(Product(XRange(v.left, v.left - x),
                                   XRange(v.top, Bottom(v)), layers))
                 ELSE None
        vert ==  IF y > 0
                 THEN Some(Product(XRange(v.left, Right(v)),
                                   XRangeDown(Bottom(v), Bottom(v) - y - 1), layers))
                 ELSE IF y < 0
                 THEN Some(Product(XRange(v.left, Right(v)),
                                   XRange(v.top, v.top - y), layers))
                 ELSE None
    IN  IF vert = None THEN horiz ELSE vert

\* _get_edge_tiles((x, y)): the tiles to redraw after the view moved by
\* (x, y) tiles; v is the view after the move.  The result is None or
\* Some(sequence of tiles).
GetEdgeTiles(v, x, y) ==
    LET layers == data.layers
        horiz == IF x > 0
                 THEN Some(Product(XRange(Right(v) - x - 1, Right(v)),
                                   XRange(v.top, Bottom(v)), layers))
                 ELSE IF x < 0
                 THEN Some(Product(XRange(v.left, v.left - x),
                                   XRange(v.top, Bottom(v)), layers))
                 ELSE None
        vert ==  IF y > 0
                 THEN Some(Product(XRange(v.left, Right(v)),
                                   XRangeDown(Bottom(v), Bottom(v) - y - 1), layers))
                 ELSE IF y < 0
                 THEN Some(Product(XRange(v.left, Right(v)),
                                   XRange(v.top, v.top - y), layers))
                 ELSE None
    IN  IF vert = None THEN horiz
        ELSE IF horiz = None THEN vert ELSE Some(Chain(vert[1], horiz[1]))

\* update_queue(iterator)
UpdateQueue(q, it) == IF q = None THEN it ELSE Some(Chain(q[1], it[1]))

\* _blit_tiles(iterator), no colorkey: every tile the data source has an
\* image for is blitted at its cell of the buffer, later entries over
\* earlier ones; pygame clips a blit to the surface
BlitTiles(buf, v, q) ==
    [c \in DOMAIN buf |->
        LET on == { k \in 1..Len(q) :
                      /\ q[k][1] - v.left = c[1]
                      /\ q[k][2] - v.top = c[2]
                      /\ GetTile(q[k]) # None }
        IN  IF on = {} THEN buf[c]
            ELSE GetTile(q[CHOOSE k \in on : \A m \in on : m <= k])]

\* the content of a cell that holds pixels of two sources
Mix(a, b) == IF a = b THEN a ELSE MixedPixels

\* self._buffer.scroll(-dx * tw, -dy * th): pygame moves nothing when the
\* shift is as large as the surface; otherwise each pixel takes the value
\* dx, dy tiles away when that lies on the surface and keeps its own
\* otherwise.  A whole cell fed from the partial last column or row keeps
\* part of its old pixels.
Scroll(buf, dx, dy) ==
    IF Abs(dx * TileW) >= BufferW \/ Abs(dy * TileH) >= BufferH THEN buf
    ELSE [c \in DOMAIN buf |->
            LET sx == c[1] + dx
                sy == c[2] + dy
                partial ==
                    \/ dx # 0 /\ sx = GridW - 1 /\ BufferW % TileW # 0
                    \/ dy # 0 /\ sy = GridH - 1 /\ BufferH % TileH # 0
            IN  IF << sx, sy >> \notin DOMAIN buf THEN buf[c]
                ELSE IF partial THEN Mix(buf[<< sx, sy >>], buf[c])
                ELSE buf[<< sx, sy >>]]

\* a clamp whose upper branch forgets the half viewport
ClampToExtent(x, half, extent) ==
    IF x < half THEN half
    ELSE IF x + half > extent THEN extent
    ELSE x

\* the clamp of _center_map for one axis
ClampAxis(x, half, extent) ==
    IF x < half THEN half
    ELSE IF x + half > extent THEN extent - half
    ELSE x

\* the draw area ScrollGroup passes: the whole target surface
Area == Rect(0, 0, size[1], size[2])

\* the renderer fields a draw may change, as one record, with the area of
\* the draw
Fields == [view |-> view, offset_x |-> offset_x, offset_y |-> offset_y,
           previous_x |-> previous_x, previous_y |-> previous_y,
           buffer |-> buffer, idle |-> idle, queue |-> queue,
           kind |-> "none", dx |-> 0, dy |-> 0, enq |-> << >>, req |-> {},
           raised |-> None, flushed |-> << >>, area |-> Area]

\* the exceptions of the interpreter, by name
TypeError == << "TypeError" >>
AttributeError == << "AttributeError" >>
Exception == << "Exception" >>

\* "for x, y, l in iterator" takes an entry apart: an entry that is not a
\* triple (a bare number is the 1-tuple << n >>) raises TypeError
Unpacks(entry) == Len(entry) = 3

\* a flush that drops the queue and draws none of its tiles
FlushDiscard(f) ==
    IF f.queue = None THEN f
    ELSE [f EXCEPT !.queue = None, !.flushed = f.flushed \o f.queue[1]]

\* _flush: draw all tiles in the queue.  The loop of _blit_tiles stops at
\* the first entry it cannot take apart: the entries before it are blitted,
\* the iterator keeps the entries after it and self.queue is not reset.
Flush(f) ==
    IF f.queue = None THEN f
    ELSE LET q == f.queue[1]
             bad == { k \in 1..Len(q) : ~Unpacks(q[k]) }
             n == IF bad = {} THEN Len(q)
                  ELSE (CHOOSE k \in bad : \A m \in bad : k <= m) - 1
             done == SubSeq(q, 1, n)
         IN  [f EXCEPT !.buffer = BlitTiles(f.buffer, f.view, done),
                       !.queue = IF bad = {} THEN None
                                 ELSE Some(SubSeq(q, n + 2, Len(q))),
                       !.req = f.req \cup { done[k] : k \in 1..n },
                       !.flushed = f.flushed \o done,
                       !.raised = IF bad = {} THEN None ELSE TypeError]

\* redraw: refill the queue with the whole view and flush it
Redraw(f) ==
    Flush([f EXCEPT !.queue = Some(GetFilledQueue(f.view)), !.kind = "blank"])

\* a reconciliation that refills the queue with the whole view when the
\* centre moved by less than a tile
CenterMapRefill(f, point) ==
    LET x0 == PyRound(point[1])
        y0 == PyRound(point[2])
        hpad == padding \div 2
        x == IF clamp_camera THEN ClampAxis(x0, half_width, MapRect.w) ELSE x0
        y == IF clamp_camera THEN ClampAxis(y0, half_height, MapRect.h) ELSE y0
        left == (x - half_width) \div TileW
        top == (y - half_height) \div TileH
        dx == left - hpad - f.view.left
        dy == top - hpad - f.view.top
        moved == Abs(dx) >= 1 \/ Abs(dy) >= 1
        v == Move(f.view, dx, dy)
        edge == GetEdgeTiles(v, dx, dy)
    IN  IF f.previous_x = x /\ f.previous_y = y
        THEN [f EXCEPT !.idle = TRUE, !.kind = "same"]
        ELSE [f EXCEPT
                !.idle = FALSE,
                !.offset_x = ((x - half_width) % TileW) + hpad * TileW,
                !.offset_y = ((y - half_height) % TileH) + hpad * TileH,
                !.view = IF moved THEN v ELSE f.view,
                !.buffer = IF moved THEN Scroll(f.buffer, dx, dy) ELSE f.buffer,
                !.queue = IF moved THEN UpdateQueue(f.queue, edge)
                         ELSE Some(GetFilledQueue(f.view)),
                !.previous_x = x,
                !.previous_y = y,
                !.kind = "moved", !.dx = dx, !.dy = dy,
                !.enq = IF moved THEN edge[1] ELSE << >>]

\* _center_map(point): centre the map on a pixel
CenterMap(f, point) ==
    LET x0 == PyRound(point[1])
        y0 == PyRound(point[2])
        hpad == padding \div 2
        x == IF clamp_camera THEN ClampAxis(x0, half_width, MapRect.w) ELSE x0
        y == IF clamp_camera THEN ClampAxis(y0, half_height, MapRect.h) ELSE y0
        left == (x - half_width) \div TileW
        top == (y - half_height) \div TileH
        dx == left - hpad - f.view.left
        dy == top - hpad - f.view.top
        moved == Abs(dx) >= 1 \/ Abs(dy) >= 1
        v == Move(f.view, dx, dy)
        edge == GetEdgeTiles(v, dx, dy)
    IN  IF f.previous_x = x /\ f.previous_y = y
        THEN [f EXCEPT !.idle = TRUE, !.kind = "same"]
        ELSE [f EXCEPT
                !.idle = FALSE,
                !.offset_x = ((x - half_width) % TileW) + hpad * TileW,
                !.offset_y = ((y - half_height) % TileH) + hpad * TileH,
                !.view = IF moved THEN v ELSE f.view,
                !.buffer = IF moved THEN Scroll(f.buffer, dx, dy) ELSE f.buffer,
                !.queue = IF moved THEN UpdateQueue(f.queue, edge) ELSE f.queue,
                !.previous_x = x,
                !.previous_y = y,
                !.kind = "moved", !.dx = dx, !.dy = dy,
                !.enq = IF moved THEN edge[1] ELSE << >>]

\* ------------------------------------------------------------- quadtree
\* pygame's Rect.colliderect: the rectangles share a point of positive area
CollideRect(a, b) ==
    /\ a.left < Right(b)
    /\ a.top < Bottom(b)
    /\ Right(a) > b.left
    /\ Bottom(a) > b.top

\* Rect(items[0]).unionall(items[1:])
UnionAll(items) ==
    LET n == 1..Len(items)
        l == CHOOSE v \in { items[i].left : i \in n } :
                \A i \in n : v <= items[i].left
        t == CHOOSE v \in { items[i].top : i \in n } :
                \A i \in n : v <= items[i].top
        r == CHOOSE v \in { Right(items[i]) : i \in n } :
                \A i \in n : v >= Right(items[i])
        b == CHOOSE v \in { Bottom(items[i]) : i \in n } :
                \A i \in n : v >= Bottom(items[i])
    IN  Rect(l, t, r - l, b - t)

\* a south-east test that takes only the items lying wholly in the quadrant
WhollyInSE(item, cx, cy) == item.left >= cx /\ item.top >= cy

\* which sub-quadrants an item overlaps, seen from the centre (cx, cy)
InNW(item, cx, cy) == item.left <= cx /\ item.top <= cy
InSW(item, cx, cy) == item.left <= cx /\ Bottom(item) >= cy
InNE(item, cx, cy) == Right(item) >= cx /\ item.top <= cy
InSE(item, cx, cy) == Right(item) >= cx /\ Bottom(item) >= cy
InAll(item, cx, cy) ==
    InNW(item, cx, cy) /\ InNE(item, cx, cy) /\ InSE(item, cx, cy) /\ InSW(item, cx, cy)

\* a node that holds its items itself and has no sub-quadrants
Leaf(items) == [items |-> items, cx |-> None, cy |-> None,
                nw |-> None, ne |-> None, se |-> None, sw |-> None]

\* "if boundary:" for a boundary that is None, Some(Rect) given by the
\* caller (a Rect with no area is false) or the 4-tuple << r, "tuple" >> a
\* node hands to its sub-quadrants (a non-empty tuple is true)
Truthy(boundary) ==
    /\ boundary # None
    /\ \/ Len(boundary) = 2
       \/ boundary[1].w # 0 /\ boundary[1].h # 0
AsTuple(r) == << r, "tuple" >>

\* the body of __init__ past the depth check: the centre of the boundary,
\* the items kept at the node (those overlapping all four sub-quadrants)
\* and, per sub-quadrant, the items filed under it and the 4-tuple it is
\* handed as its boundary
Quadrants(items, boundary) ==
    LET bnd == IF Truthy(boundary) THEN boundary[1] ELSE UnionAll(items)
        cx == bnd.left + (bnd.w \div 2)
        cy == bnd.top + (bnd.h \div 2)
        Here(i) == InAll(i, cx, cy)
        ToNW(i) == ~InAll(i, cx, cy) /\ InNW(i, cx, cy)
        ToNE(i) == ~InAll(i, cx, cy) /\ InNE(i, cx, cy)
        ToSE(i) == ~InAll(i, cx, cy) /\ InSE(i, cx, cy)
        ToSW(i) == ~InAll(i, cx, cy) /\ InSW(i, cx, cy)
    IN  [here |-> SelectSeq(items, Here), cx |-> cx, cy |-> cy,
         nw |-> [items |-> SelectSeq(items, ToNW),
                 boundary |-> AsTuple(Rect(bnd.left, bnd.top, cx, cy))],
         ne |-> [items |-> SelectSeq(items, ToNE),
                 boundary |-> AsTuple(Rect(cx, bnd.top, Right(bnd), cy))],
         se |-> [items |-> SelectSeq(items, ToSE),
                 boundary |-> AsTuple(Rect(cx, cy, Right(bnd), Bottom(bnd)))],
         sw |-> [items |-> SelectSeq(items, ToSW),
                 boundary |-> AsTuple(Rect(bnd.left, cy, cx, Bottom(bnd)))]]

\* FastQuadTree(items, depth, boundary); a sub-quadrant is None or
\* Some(tree), and is handed the 4-tuple (left, top, cx, cy), which Rect()
\* reads as (left, top, width, height)
RECURSIVE FastQuadTree(_, _, _)
FastQuadTree(items, depth, boundary) ==
    LET d == depth - 1
        q == Quadrants(items, boundary)
        Sub(part) == IF part.items = << >> THEN None
                     ELSE Some(FastQuadTree(part.items, d, part.boundary))
    IN  IF d = 0 \/ items = << >> THEN Leaf(items)
        ELSE [items |-> q.here, cx |-> q.cx, cy |-> q.cy,
              nw |-> Sub(q.nw), ne |-> Sub(q.ne),
              se |-> Sub(q.se), sw |-> Sub(q.sw)]

\* tuple(rect)
RectTuple(r) == << r.left, r.top, r.w, r.h >>

\* hit(rect): the items that overlap a bounding rectangle, as tuples
RECURSIVE Hit(_, _)
Hit(tree, rect) ==
    LET here == { RectTuple(tree.items[i]) :
                    i \in { k \in 1..Len(tree.items) : CollideRect(rect, tree.items[k]) } }
        nw == IF tree.nw # None /\ rect.left <= tree.cx /\ rect.top <= tree.cy
              THEN Hit(tree.nw[1], rect) ELSE {}
        sw == IF tree.sw # None /\ rect.left <= tree.cx /\ Bottom(rect) >= tree.cy
              THEN Hit(tree.sw[1], rect) ELSE {}
        ne == IF tree.ne # None /\ Right(rect) >= tree.cx /\ rect.top <= tree.cy
              THEN Hit(tree.ne[1], rect) ELSE {}
        se == IF tree.se # None /\ Right(rect) >= tree.cx /\ Bottom(rect) >= tree.cy
              THEN Hit(tree.se[1], rect) ELSE {}
    IN  here \cup nw \cup sw \cup ne \cup se

\* ------------------------------------------------- occlusion repair
\* the size setter's view size for a viewport size and a padding
ViewSizeOf(sz, pad) ==
    << (sz[1] + TileW * pad) \div TileW, (sz[2] + TileH * pad) \div TileH >>

\* the size setter's rects: one per tile cell of the view, columns outermost
CellRects(vs) ==
    LET cells == Product(XRange(0, vs[1]), XRange(0, vs[2]), << 0 >>)
    IN  [k \in 1..Len(cells) |->
            Rect(cells[k][1] * TileW, cells[k][2] * TileH, TileW, TileH)]

\* self._layer_quadtree for each view size: FastQuadTree(rects, 4)
LayerQuadtree ==
    [vs \in { ViewSizeOf(sz, pad) : sz \in Sizes, pad \in 0..MaxPadding } |->
        FastQuadTree(CellRects(vs), 4, None)]

\* the part of rectangle r inside the clip rectangle (Surface.blit returns
\* the affected area)
Clip(r, clip) ==
    LET l == Max(r.left, clip.left)
        t == Max(r.top, clip.top)
    IN  Rect(l, t, Max(0, Min(Right(r), Right(clip)) - l),
                   Max(0, Min(Bottom(r), Bottom(clip)) - t))

\* a tie-break that lets a tile of the drawable's own layer win
AboveOrEqual(x, y) == x >= y

\* above(x, y) of _overdraw
Above(x, y) == x > y

\* the cells of the buffer (column, row) that _overdraw repairs for one
\* drawable: hit() of its blitted rectangle moved into buffer coordinates
HitCells(f, dr) ==
    LET ox == -f.offset_x - f.area.left
        oy == -f.offset_y - f.area.top
        dirty_rect == Clip(dr.rect, f.area)
        hits == Hit(LayerQuadtree[<< f.view.w, f.view.h >>], Move(dirty_rect, -ox, -oy))
    IN  { << r[1] \div r[3], r[2] \div r[4] >> : r \in hits }

\* the loop of _overdraw for one drawable: the (cell, layer) pairs whose
\* tile it asks the data source for, and those of them it blits back over
\* the cell because the tile is there
Repair(f, dr) ==
    LET tile_layers == { data.layers[k] : k \in 1..Len(data.layers) }
        asked == { a \in HitCells(f, dr) \X tile_layers : Above(a[2], dr.layer) }
        HasTile(a) ==
            GetTile(<< a[1][1] + f.view.left, a[1][2] + f.view.top, a[2] >>) # None
    IN  [asked |-> asked, blits |-> { a \in asked : HasTile(a) }]

\* _overdraw(surface, offset, surfaces): every drawable is blitted in the
\* order passed, and then for each drawable in that order the tiles above
\* it; the result lists each drawable's Repair
RECURSIVE Overdraw(_, _, _)
Overdraw(f, surfaces, i) ==
    IF i > Len(surfaces) THEN << >>
    ELSE << Repair(f, surfaces[i]) >> \o Overdraw(f, surfaces, i + 1)

\* -------------------------------------------------------------- actions
\* AbstractRenderer.__init__ with a data source, a padding and clamp_camera
InitRenderer(sources, paddings) ==
    /\ data \in sources
    /\ padding \in paddings
    /\ clamp_camera \in BOOLEAN
    /\ flush_on_draw = TRUE
    /\ size = None
    /\ view = None
    /\ half_width = None
    /\ half_height = None
    /\ offset_x = None
    /\ offset_y = None
    /\ previous_x = None
    /\ previous_y = None
    /\ buffer = None
    /\ idle = FALSE
    /\ blank = FALSE
    /\ centered_point = None
    /\ queue = None
    /\ op = "init"
    /\ want = None
    /\ calls = 0
    /\ drawn = NoDraw
    /\ repeat = FALSE
    /\ raised = None
    /\ pending = << >>
    /\ group_size = None

\* no quadtree under test
NoQuadTree ==
    /\ qt_items = << >>
    /\ qt_depth = 0
    /\ qt_boundary = None
    /\ qt_query = None
    /\ qt_hits = {}

Init == InitRenderer(DataSources, 0..MaxPadding) /\ NoQuadTree

\* what the size setter assigns for the size sz, in the shape of Fields;
\* the operands of "/" are ints, so the quotient inside
\* ceil(buffer_width / tw) is already floored
SizeFields(sz) ==
    LET buffer_width == sz[1] + TileW * padding
        buffer_height == sz[2] + TileH * padding
        gw == (buffer_width + TileW - 1) \div TileW
        gh == (buffer_height + TileH - 1) \div TileH
    IN  [view |-> Rect(0, 0, buffer_width \div TileW, buffer_height \div TileH),
         offset_x |-> 0, offset_y |-> 0, previous_x |-> 0, previous_y |-> 0,
         buffer |-> [c \in (0..(gw - 1)) \X (0..(gh - 1)) |-> BlankPixels],
         idle |-> FALSE, queue |-> queue,
         kind |-> "none", dx |-> 0, dy |-> 0, enq |-> << >>, req |-> {},
         raised |-> None, flushed |-> << >>, area |-> Rect(0, 0, sz[1], sz[2]),
         half_width |-> sz[1] \div 2, half_height |-> sz[2] \div 2]

\* renderer.size = sz
SetSize(sz) ==
    LET s == SizeFields(sz)
    IN  /\ buffer' = s.buffer
        /\ view' = s.view
        /\ half_width' = s.half_width
        /\ half_height' = s.half_height
        /\ size' = sz
        /\ idle' = s.idle
        /\ blank' = TRUE
        /\ offset_x' = s.offset_x
        /\ offset_y' = s.offset_y
        /\ previous_x' = s.previous_x
        /\ previous_y' = s.previous_y
        /\ op' = "size"
        /\ drawn' = NoDraw
        /\ repeat' = FALSE
        /\ raised' = None
        /\ UNCHANGED << data, padding, clamp_camera, flush_on_draw,
                        centered_point, queue, want, calls, pending, qvars, gvars >>

\* a center() that keeps the point already pending
CenterKeepFirst(point) ==
    /\ centered_point' = IF centered_point = None THEN point ELSE centered_point
    /\ op' = "center"
    /\ want' = point
    /\ calls' = Min(calls + 1, MaxCalls)
    /\ drawn' = [NoDraw EXCEPT !.given = drawn.given]
    /\ repeat' = FALSE
    /\ raised' = None
    /\ UNCHANGED << data, padding, clamp_camera, flush_on_draw, size, view,
                    half_width, half_height, offset_x, offset_y, previous_x,
                    previous_y, buffer, idle, blank, queue, pending, qvars, gvars >>

\* renderer.center(point)
Center(point) ==
    /\ centered_point' = point
    /\ op' = "center"
    /\ want' = point
    /\ calls' = Min(calls + 1, MaxCalls)
    /\ drawn' = [NoDraw EXCEPT !.given = drawn.given]
    /\ repeat' = FALSE
    /\ raised' = None
    /\ UNCHANGED << data, padding, clamp_camera, flush_on_draw, size, view,
                    half_width, half_height, offset_x, offset_y, previous_x,
                    previous_y, buffer, idle, blank, queue, pending, qvars, gvars >>

\* the renderer's fields after the first half of draw(): the full redraw
\* of a blank buffer or else the reconciliation of a pending point, then the
\* flush of the queue
DrawFields ==
    LET f1 == IF blank THEN Redraw(Fields)
              ELSE IF centered_point # None
              THEN CenterMap(Fields, centered_point)
              ELSE Fields
    IN  IF f1.queue # None /\ flush_on_draw THEN Flush(f1) ELSE f1

\* the second half of draw(surface, area, surfaces), from the fields f2 the
\* first half left and the repairs od of _overdraw: for the history what
\* the draw enqueued, asked of the data source, painted and returned
DrawResult(f2, od, surfaces) ==
        [f |-> f2,
         drawn |-> [given |-> IF calls > 0 THEN want ELSE None,
                    calls |-> calls, point |-> centered_point,
                    kind |-> f2.kind,
                    dx |-> f2.dx, dy |-> f2.dy, enq |-> f2.enq,
                    req |-> f2.req \cup
                            { << a[1][1] + f2.view.left, a[1][2] + f2.view.top, a[2] >> :
                                a \in UNION { od[i].asked : i \in 1..Len(od) } },
                    changed |-> \/ f2.view # view
                                \/ f2.offset_x # offset_x
                                \/ f2.offset_y # offset_y
                                \/ f2.buffer # buffer,
                    dirty |-> IF ~f2.idle THEN "area"
                              ELSE IF surfaces # None THEN "rects"
                              ELSE "None",
                    surfaces |-> IF surfaces # None THEN surfaces[1] ELSE << >>,
                    paint |-> [i \in 1..Len(od) |-> od[i].blits] \o << >>,
                    pending |-> pending, flushed |-> f2.flushed,
                    sprite |-> None,
                    scrolled |-> IF op = "scroll" THEN drawn.scrolled
                                 ELSE << 0, 0 >>,
                    before |-> << previous_x, previous_y >>]]

\* of the entries callers queued, those the queue q still holds
StillQueued(entries, q) ==
    IF q = None THEN << >>
    ELSE SelectSeq(entries, LAMBDA e : \E k \in 1..Len(q[1]) : q[1][k] = e)

\* renderer.draw(surface, area, surfaces) once the size is set; surfaces is
\* None or Some(list of drawables).  When the flush raises, the draw ends
\* there: nothing is blitted on the target.
Draw(surfaces) ==
    /\ size # None
    /\ \E f2 \in { DrawFields } :
       \E od \in { IF surfaces # None /\ f2.raised = None
                   THEN Overdraw(f2, surfaces[1], 1) ELSE << >> } :
       \E r \in { DrawResult(f2, od, surfaces) } :
           /\ view' = r.f.view
           /\ offset_x' = r.f.offset_x
           /\ offset_y' = r.f.offset_y
           /\ previous_x' = r.f.previous_x
           /\ previous_y' = r.f.previous_y
           /\ buffer' = r.f.buffer
           /\ idle' = r.f.idle
           /\ queue' = r.f.queue
           /\ raised' = r.f.raised
           /\ drawn' = r.drawn
           /\ pending' = StillQueued(pending, r.f.queue)
    /\ blank' = FALSE
    /\ centered_point' = IF blank THEN centered_point ELSE None
    /\ op' = "draw"
    /\ calls' = 0
    /\ repeat' = (calls > 0 /\ drawn.given = want)
    /\ UNCHANGED << data, padding, clamp_camera, flush_on_draw, size,
                    half_width, half_height, want, qvars, gvars >>

\* renderer.draw(surface, area) while the size was never set, on a target
\* of the given size.  _blank is False after __init__, so the branch that
\* would infer the size is not entered: a pending point fails in _center_map
\* (TypeError on None), else a queue fails in _blit_tiles (the buffer is
\* None), else the offset "-self._offset_x" fails; no field is assigned
DrawUnsized(target) ==
    /\ size = None
    /\ op' = "draw_unsized"
    /\ raised' = IF centered_point # None THEN TypeError
                 ELSE IF queue # None /\ flush_on_draw THEN AttributeError
                 ELSE TypeError
    /\ UNCHANGED << rvars, want, calls, drawn, repeat, pending, qvars, gvars >>

Next ==
    \/ \E sz \in Sizes : SetSize(sz)
    \/ \E p \in Points : Center(p)
    \/ Draw(None)
    \/ \E target \in Sizes : DrawUnsized(target)

Spec == Init /\ [][Next]_vars

\* ------------------------------------------------- the quadtree alone
\* the rectangles a tree is built from: every sub-sequence of ItemPool
ItemPool ==
    << Rect(0, 0, 2, 2), Rect(2, 0, 2, 2), Rect(1, 1, 2, 2), Rect(3, 3, 1, 1),
       Rect(0, 2, 4, 1), Rect(2, 1, 1, 3), Rect(0, 0, 4, 4) >>

\* the deepest tree asked for
MaxDepth == 3

\* the boundaries passed: none, one around the pool, one that leaves part of
\* it out, one without area
Boundaries ==
    { None, Some(Rect(0, 0, 4, 4)), Some(Rect(0, 0, 2, 3)), Some(Rect(1, 1, 0, 0)) }

\* the rectangles asked about
Queries ==
    { Rect(0, 0, 1, 1), Rect(2, 2, 1, 1), Rect(1, 0, 2, 1), Rect(3, 1, 1, 2),
      Rect(0, 3, 2, 1), Rect(1, 1, 3, 3), Rect(2, 0, 2, 2), Rect(4, 4, 1, 1) }

\* the sub-sequence of seq at the indices in keep
SubSeq0(seq, keep) ==
    LET Kept(i) == i \in keep
        idx == SelectSeq([i \in 1..Len(seq) |-> i], Kept)
    IN  [k \in 1..Len(idx) |-> seq[idx[k]]]

\* tree = FastQuadTree(items, depth, boundary), beside a renderer that is
\* not used
InitQuadTree ==
    /\ InitRenderer({ CHOOSE d \in DataSources : ~d.sparse }, { 0 })
    /\ qt_items \in { SubSeq0(ItemPool, keep) : keep \in SUBSET (1..Len(ItemPool)) }
    /\ qt_depth \in 1..MaxDepth
    /\ qt_boundary \in Boundaries
    /\ qt_query = None
    /\ qt_hits = {}

\* tree.hit(rect)
HitQuery(rect) ==
    /\ qt_query' = Some(rect)
    /\ qt_hits' = Hit(FastQuadTree(qt_items, qt_depth, qt_boundary), rect)
    /\ op' = "hit"
    /\ UNCHANGED << rvars, want, calls, drawn, repeat, raised, pending,
                    qt_items, qt_depth, qt_boundary, gvars >>

NextQuadTree == \E rect \in Queries : HitQuery(rect)

SpecQuadTree == InitQuadTree /\ [][NextQuadTree]_vars

\* ------------------------------------------- building the quadtree
\* how many nested calls of __init__ the interpreter allows before it raises
\* RuntimeError (maximum recursion depth exceeded)
MaxNesting == 6

RuntimeError == << "RuntimeError" >>

\* the deepest nesting of __init__ calls that FastQuadTree(items, depth,
\* boundary), itself called at the given level, reaches; past MaxNesting the
\* interpreter gives up
RECURSIVE Nesting(_, _, _, _)
Nesting(items, depth, boundary, level) ==
    LET d == depth - 1
        q == Quadrants(items, boundary)
        Sub(part) == IF part.items = << >> THEN level
                     ELSE Nesting(part.items, d, part.boundary, level + 1)
    IN  IF level > MaxNesting THEN level
        ELSE IF d = 0 \/ items = << >> THEN level
        ELSE Max(Max(Sub(q.nw), Sub(q.ne)), Max(Sub(q.se), Sub(q.sw)))

\* the rectangles and boundaries the trees of SpecBuild are built from
BuildPool ==
    << Rect(0, 0, 1, 1), Rect(0, 0, 2, 2), Rect(2, 0, 2, 2), Rect(3, 3, 1, 1),
       Rect(0, 2, 4, 1) >>
BuildBoundaries == { None, Some(Rect(0, 0, 4, 4)), Some(Rect(1, 1, 2, 2)) }

\* the arguments of a construction that has not run yet, with any maximum
\* depth from 0
InitBuild ==
    /\ InitRenderer({ CHOOSE d \in DataSources : ~d.sparse }, { 0 })
    /\ qt_items \in { SubSeq0(BuildPool, keep) : keep \in SUBSET (1..Len(BuildPool)) }
    /\ qt_depth \in 0..MaxDepth
    /\ qt_boundary \in BuildBoundaries
    /\ qt_query = None
    /\ qt_hits = {}

\* tree = FastQuadTree(items, depth, boundary): returns the tree, or raises
\* RuntimeError when the calls nest deeper than the interpreter allows
Build ==
    /\ op = "init"
    /\ op' = "build"
    /\ raised' = IF Nesting(qt_items, qt_depth, qt_boundary, 1) > MaxNesting
                 THEN RuntimeError ELSE None
    /\ UNCHANGED << rvars, want, calls, drawn, repeat, pending, qvars, gvars >>

\* tree.hit(rect) on a tree that was built
BuiltHit(rect) ==
    /\ op \in { "build", "hit" }
    /\ raised = None
    /\ HitQuery(rect)

NextBuild ==
    \/ Build
    \/ \E rect \in Queries : BuiltHit(rect)

SpecBuild == InitBuild /\ [][NextBuild]_vars

\* ------------------------------------------- draws with drawables
\* the layers of the drawables passed to draw()
DrawableLayers == { 0, 2 }

\* the screen rectangles of the drawables: on one cell, across four cells,
\* partly off the target
DrawableRects == { Rect(0, 0, TileW, TileH), Rect(1, 1, TileW, TileH),
                   Rect(2 * TileW - 1, TileH, TileW, TileH) }

Drawables == [rect : DrawableRects, layer : DrawableLayers]

\* the lists passed as surfaces: one drawable, or two of different layers
DrawLists ==
    { << d >> : d \in Drawables }
        \cup { << p[1], p[2] >> :
                    p \in { q \in Drawables \X Drawables : q[1].layer # q[2].layer } }

\* the centres requested in the draws with drawables
OverdrawPoints == { << 4, 4 >>, << 9, 8 >>, << 12, 12 >> }

\* a renderer over the map with layers 0, 1, 3
InitOverdraw ==
    /\ InitRenderer({ d \in DataSources : d.sparse }, 0..1)
    /\ NoQuadTree

NextOverdraw ==
    \/ SetSize(<< 2 * TileW, 2 * TileH >>)
    \/ \E p \in OverdrawPoints : Center(p)
    \/ \E s \in DrawLists : Draw(Some(s))

SpecOverdraw == InitOverdraw /\ [][NextOverdraw]_vars

\* ------------------------------------------- viewports of any pixel size
\* viewport sizes given to the size setter: a whole number of tiles, and a
\* width that ends inside a tile
OddSizes == { << 2 * TileW, 2 * TileH >>, << 2 * TileW + 1, 2 * TileH >> }

\* the centres requested of such a viewport
OddPoints == { << 4, 4 >>, << 8, 4 >>, << 4, 8 >>, << 9, 8 >> }

\* a renderer over the map that has a tile everywhere
InitSize ==
    /\ InitRenderer({ d \in DataSources : ~d.sparse }, 0..1)
    /\ NoQuadTree

NextSize ==
    \/ \E sz \in OddSizes : SetSize(sz)
    \/ \E p \in OddPoints : Center(p)
    \/ Draw(None)
    \/ \E target \in OddSizes : DrawUnsized(target)

SpecSize == InitSize /\ [][NextSize]_vars

\* ----------------------------------------------------------- scroll()
\* how far from the origin, in pixels, scroll() is let take the centre
MaxScroll == 6

\* the vectors given to scroll(), in pixels
ScrollVectors == { << 1, 0 >>, << 2, 0 >>, << -1, 0 >>, << 0, 3 >> }

\* renderer.scroll(vector): center() of the vector added to the centre of
\* the last reconciliation, a point of whole pixels (kept in half pixels
\* like every point); until the size setter ran _previous_x is None and
\* the sum raises TypeError.  At most MaxCalls calls are counted between
\* draws, and the centre asked for stays within MaxScroll of the origin.
ScrollBy(vector) ==
    /\ calls < MaxCalls
    /\ size # None => /\ Abs(vector[1] + previous_x) <= MaxScroll
                      /\ Abs(vector[2] + previous_y) <= MaxScroll
    /\ IF size = None
       THEN /\ raised' = TypeError
            /\ op' = "scroll_raised"
            /\ UNCHANGED << centered_point, want, calls, drawn, repeat >>
       ELSE /\ centered_point' = << 2 * (vector[1] + previous_x),
                                    2 * (vector[2] + previous_y) >>
            /\ want' = centered_point'
            /\ op' = "scroll"
            /\ calls' = Min(calls + 1, MaxCalls)
            /\ drawn' = [NoDraw EXCEPT
                           !.given = drawn.given,
                           !.scrolled =
                               IF op = "scroll"
                               THEN << drawn.scrolled[1] + vector[1],
                                       drawn.scrolled[2] + vector[2] >>
                               ELSE vector]
            /\ repeat' = FALSE
            /\ raised' = None
    /\ UNCHANGED << data, padding, clamp_camera, flush_on_draw, size, view,
                    half_width, half_height, offset_x, offset_y, previous_x,
                    previous_y, buffer, idle, blank, queue, pending, qvars,
                    gvars >>

\* a renderer over the map that has a tile everywhere, without padding
InitScroll ==
    /\ InitRenderer({ d \in DataSources : ~d.sparse }, { 0 })
    /\ NoQuadTree

NextScroll ==
    \/ SetSize(<< 2 * TileW, 2 * TileH >>)
    \/ \E vector \in ScrollVectors : ScrollBy(vector)
    \/ Draw(None)

SpecScroll == InitScroll /\ [][NextScroll]_vars

\* ------------------------------------------------------- the ScrollGroup
\* the sizes of the surfaces a group is drawn on
GroupSizes == Sizes

\* the centres given to group.center(), in half pixels: whole pixels only
GroupPoints == { << 0, 0 >>, << 4, 4 >>, << 8, 4 >>, << 12, 12 >> }

\* the world rectangles of the sprite of the group
SpriteRects == { Rect(0, 0, TileW, TileH), Rect(TileW + 1, TileH, TileW, TileH) }

\* the layer of the sprite: the default_layer of the tutorial
SpriteLayer == 2

\* OrthogonalRenderer.sprite_offset for a pending point of whole pixels and
\* the half sizes hw, hh: the point as center() stored it, neither rounded
\* nor clamped
SpriteOffset(point, hw, hh) ==
    << -(point[1] \div 2) + hw, -(point[2] \div 2) + hh >>

\* the first half of the renderer's draw() inside group.draw(): after the
\* size setter ran the buffer is blank and the draw is a full redraw
GroupDrawFields(resize, target) ==
    IF resize THEN Redraw(SizeFields(target)) ELSE DrawFields

\* group.draw(surface) on a surface of size target, the group holding one
\* sprite with world rectangle spr: the renderer's size is set when the
\* surface size is not the one the group remembers, sprite_offset is read
\* (it raises Exception when no point is pending), the sprite is moved by
\* it and passed to the renderer's draw()
GroupDraw(target, spr) ==
    LET resize == group_size # target
        s == SizeFields(target)
    IN  /\ group_size' = target
        /\ size' = target
        /\ half_width' = s.half_width
        /\ half_height' = s.half_height
        /\ op' = "group_draw"
        /\ IF centered_point = None
           THEN /\ raised' = Exception
                /\ view' = IF resize THEN s.view ELSE view
                /\ offset_x' = IF resize THEN 0 ELSE offset_x
                /\ offset_y' = IF resize THEN 0 ELSE offset_y
                /\ previous_x' = IF resize THEN 0 ELSE previous_x
                /\ previous_y' = IF resize THEN 0 ELSE previous_y
                /\ buffer' = IF resize THEN s.buffer ELSE buffer
                /\ idle' = IF resize THEN FALSE ELSE idle
                /\ blank' = (resize \/ blank)
                /\ drawn' = [NoDraw EXCEPT !.sprite = Some(spr)]
                /\ UNCHANGED << centered_point, queue, calls, repeat, pending >>
           ELSE \E off \in { SpriteOffset(centered_point, s.half_width, s.half_height) } :
                \E surfaces \in { << [rect |-> Move(spr, off[1], off[2]),
                                      layer |-> SpriteLayer] >> } :
                \E f2 \in { GroupDrawFields(resize, target) } :
                \E od \in { IF f2.raised = None
                            THEN Overdraw(f2, surfaces, 1) ELSE << >> } :
                \E r \in { DrawResult(f2, od, Some(surfaces)) } :
                    /\ view' = r.f.view
                    /\ offset_x' = r.f.offset_x
                    /\ offset_y' = r.f.offset_y
                    /\ previous_x' = r.f.previous_x
                    /\ previous_y' = r.f.previous_y
                    /\ buffer' = r.f.buffer
                    /\ idle' = r.f.idle
                    /\ queue' = r.f.queue
                    /\ raised' = r.f.raised
                    /\ drawn' = [r.drawn EXCEPT !.sprite = Some(spr)]
                    /\ pending' = StillQueued(pending, r.f.queue)
                    /\ blank' = FALSE
                    /\ centered_point' = IF resize \/ blank THEN centered_point
                                         ELSE None
                    /\ calls' = 0
                    /\ repeat' = (calls > 0 /\ drawn.given = want)
        /\ UNCHANGED << data, padding, clamp_camera, flush_on_draw, want, qvars >>

\* a renderer over the map that has a tile everywhere, drawn by a group
InitGroup ==
    /\ InitRenderer({ d \in DataSources : ~d.sparse }, { 0 })
    /\ NoQuadTree

NextGroup ==
    \/ \E p \in GroupPoints : Center(p)
    \/ \E target \in GroupSizes, spr \in SpriteRects : GroupDraw(target, spr)

SpecGroup == InitGroup /\ [][NextGroup]_vars

\* --------------------------------------------- the redraw queue's callers
\* the most entries the queue is let grow to
MaxQueue == 3

\* self.update_rate
UpdateRate == 10

\* the lists of tiles given to update_queue()
TileLists == { << << 1, 1, 0 >> >>, << << 1, 1, 3 >>, << 1, 1, 0 >> >> }

\* the positions given to queue_tile()
TilePositions == { << 1, 1, 0 >> }

\* the entries of a queue, none for the queue that is None
Entries(q) == IF q = None THEN << >> ELSE q[1]

\* what the rest of an operation leaves alone when it touches only the queue
QueueFrame ==
    /\ op' \in { "update_queue", "queue_tile" }
    /\ raised' = None
    /\ UNCHANGED << data, padding, clamp_camera, flush_on_draw, size, view,
                    half_width, half_height, offset_x, offset_y, previous_x,
                    previous_y, buffer, idle, blank, centered_point, want,
                    calls, drawn, repeat, qvars, gvars >>

\* renderer.update_queue(iterator), the iterator yielding the given tiles
UpdateQueueCall(tiles) ==
    /\ Len(Entries(queue)) + Len(tiles) <= MaxQueue
    /\ Len(pending) + Len(tiles) <= MaxQueue
    /\ queue' = UpdateQueue(queue, Some(tiles))
    /\ pending' = pending \o tiles
    /\ op' = "update_queue"
    /\ QueueFrame

\* renderer.queue_tile(position): iter(position,) is iter(position), whose
\* entries are the three numbers of the position, one at a time
QueueTile(position) ==
    /\ Len(Entries(queue)) + 3 <= MaxQueue
    /\ Len(pending) + 3 <= MaxQueue
    /\ queue' = UpdateQueue(queue, Some(<< << position[1] >>, << position[2] >>,
                                           << position[3] >> >>))
    /\ pending' = pending \o << << position[1] >>, << position[2] >>,
                                << position[3] >> >>
    /\ op' = "queue_tile"
    /\ QueueFrame

\* renderer.flush_on_draw = b
SetFlushOnDraw(b) ==
    /\ flush_on_draw' = b
    /\ op' = "flush_on_draw"
    /\ raised' = None
    /\ UNCHANGED << data, padding, clamp_camera, size, view, half_width,
                    half_height, offset_x, offset_y, previous_x, previous_y,
                    buffer, idle, blank, centered_point, queue, want, calls,
                    drawn, repeat, pending, qvars, gvars >>

\* renderer.update(dt): neither AbstractRenderer nor OrthogonalRenderer
\* defines update, so the attribute lookup raises and nothing is drained
Update ==
    /\ op' = "update"
    /\ raised' = AttributeError
    /\ UNCHANGED << rvars, want, calls, drawn, repeat, pending, qvars, gvars >>

\* the centres requested beside the queue's callers
QueuePoints == { << 4, 4 >>, << 8, 4 >> }

\* a renderer over the map with layers 0, 1, 3, without padding, its camera
\* not clamped
InitQueue ==
    /\ InitRenderer({ d \in DataSources : d.sparse }, { 0 })
    /\ clamp_camera = FALSE
    /\ NoQuadTree

\* renderer.draw(surface, rect); with flush_on_draw off the edge tiles of
\* a scroll stay queued, and the queue is kept within MaxQueue
DrawQueued ==
    /\ Draw(None)
    /\ Len(Entries(queue')) <= MaxQueue

NextQueue ==
    \/ SetSize(<< 2 * TileW, 2 * TileH >>)
    \/ \E p \in QueuePoints : Center(p)
    \/ DrawQueued
    \/ \E tiles \in TileLists : UpdateQueueCall(tiles)
    \/ \E position \in TilePositions : QueueTile(position)
    \/ \E b \in BOOLEAN : SetFlushOnDraw(b)
    \/ Update

SpecQueue == InitQueue /\ [][NextQueue]_vars

\* ------------------------------------------------------- claims: camera
\* the centre _center_map works with for a requested point: rounded and,
\* with clamp_camera, clamped
CentreX(point) ==
    IF clamp_camera THEN ClampAxis(PyRound(point[1]), half_width, MapRect.w)
    ELSE PyRound(point[1])
CentreY(point) ==
    IF clamp_camera THEN ClampAxis(PyRound(point[2]), half_height, MapRect.h)
    ELSE PyRound(point[2])

\* the view origin and pixel offset a centre (x, y) stands for
CameraAt(x, y) ==
    /\ view.left = ((x - half_width) \div TileW) - (padding \div 2)
    /\ view.top = ((y - half_height) \div TileH) - (padding \div 2)
    /\ offset_x = ((x - half_width) % TileW) + (padding \div 2) * TileW
    /\ offset_y = ((y - half_height) % TileH) + (padding \div 2) * TileH

\* what a full redraw into a new buffer leaves in cell c of a view whose
\* origin is the tile (left, top): the image of the highest visible layer
\* that has one there, blank pixels when no layer has
FreshCell(left, top, c) ==
    LET HasImage(l) == GetTile(<< left + c[1], top + c[2], l >>) # None
        ls == SelectSeq(data.layers, HasImage)
    IN  IF ls = << >> THEN BlankPixels
        ELSE GetTile(<< left + c[1], top + c[2], ls[Len(ls)] >>)

\* the last operation was a draw
Drawn == op = "draw"

\* the last draw reconciled the camera (_center_map ran)
Reconciled == Drawn /\ drawn.kind \in { "same", "moved" }

\* C1 (scroll convergence): after a draw that left the queue empty, with P
\* the last centre requested, every cell of the buffer's view holds what a
\* full redraw centred at P into a new buffer would put there.
C1_ScrollConvergence ==
    (Drawn /\ want # None /\ queue = None) =>
        LET left == ((CentreX(want) - half_width) \div TileW) - (padding \div 2)
            top == ((CentreY(want) - half_height) \div TileH) - (padding \div 2)
        IN  \A c \in ViewCells : buffer[c] = FreshCell(left, top, c)

\* C3 (edge-band exactness): a reconciliation that moves the view by exactly
\* one tile along exactly one axis enqueues exactly (view extent along the
\* other axis) x (number of visible layers) tiles.
C3_EdgeBandExact ==
    (Drawn /\ drawn.kind = "moved" /\ Abs(drawn.dx) + Abs(drawn.dy) = 1) =>
        Len(drawn.enq) = (IF drawn.dx # 0 THEN view.h ELSE view.w) * Len(data.layers)

\* C4 (idempotence): when two draws in a row each followed a center() of the
\* same point, the second enqueues nothing, scrolls nothing, leaves view,
\* offset and buffer as they were, and leaves the renderer idle with an
\* empty queue.
C4_Idempotent ==
    (Drawn /\ repeat) =>
        /\ drawn.enq = << >>
        /\ drawn.kind = "same"
        /\ ~drawn.changed
        /\ idle
        /\ queue = None

\* C7 (camera reconciliation): after a draw that found a pending centre P,
\* the view origin and the pixel offset are those of P rounded and, with
\* clamp_camera, clamped.
C7_CameraExact ==
    (Drawn /\ drawn.point # None) =>
        CameraAt(CentreX(drawn.point), CentreY(drawn.point))

\* the renderer fields center() must leave alone
Untouched ==
    << size, view, half_width, half_height, offset_x, offset_y, previous_x,
       previous_y, buffer, queue, idle, blank >>

\* C8 (coalescing): center() changes none of view rectangle, pixel offset,
\* previous centre, buffer, queue, idle and blank flags; and a draw that
\* reconciles does so once, for the last point requested, however many
\* center() calls came before it.
C8_Coalescing ==
    /\ [][op' = "center" => UNCHANGED Untouched]_vars
    /\ [](Reconciled =>
            /\ drawn.point = want
            /\ previous_x = CentreX(want)
            /\ previous_y = CentreY(want))

\* C8 witness: a draw that followed two or more center() calls and moved
\* the camera to the last of them
C8_Witness ==
    /\ Reconciled
    /\ drawn.calls >= 2
    /\ drawn.kind = "moved"
    /\ drawn.given = want

\* the clamp interval of an axis holds at least one point
Fits(half, extent) == half <= extent - half

\* C9 as claimed (clamping): with clamp_camera the centre of every
\* reconciliation lies, per axis, in [half_viewport, map_dimension -
\* half_viewport], for every requested point and every map and viewport
\* size, and clamping a clamped value changes nothing.
C9_ClampAnySize ==
    (Reconciled /\ clamp_camera) =>
        /\ half_width <= previous_x /\ previous_x <= MapRect.w - half_width
        /\ half_height <= previous_y /\ previous_y <= MapRect.h - half_height
        /\ \A p \in Points :
            /\ ClampAxis(CentreX(p), half_width, MapRect.w) = CentreX(p)
            /\ ClampAxis(CentreY(p), half_height, MapRect.h) = CentreY(p)

\* C9 amended (clamping): the same, on every axis along which the viewport
\* is no larger than the map (half_viewport <= map_dimension -
\* half_viewport).
C9_ClampWhenFits ==
    (Reconciled /\ clamp_camera) =>
        /\ Fits(half_width, MapRect.w) =>
            /\ half_width <= previous_x /\ previous_x <= MapRect.w - half_width
            /\ \A p \in Points :
                ClampAxis(CentreX(p), half_width, MapRect.w) = CentreX(p)
        /\ Fits(half_height, MapRect.h) =>
            /\ half_height <= previous_y /\ previous_y <= MapRect.h - half_height
            /\ \A p \in Points :
                ClampAxis(CentreY(p), half_height, MapRect.h) = CentreY(p)

\* C9 witness: a reconciliation of a point beyond the map's far edge on x
\* and of a point before its near edge on y, both brought to the interval's
\* ends
C9_Witness ==
    /\ Reconciled /\ clamp_camera
    /\ Fits(half_width, MapRect.w) /\ Fits(half_height, MapRect.h)
    /\ PyRound(drawn.point[1]) > MapRect.w - half_width
    /\ previous_x = MapRect.w - half_width
    /\ previous_y = half_height

\* C10 (clamp containment), for viewports no larger than the map: with
\* clamp_camera every tile position a draw asks the data source for lies in
\* the map extended by padding tiles on every side.
C10_ClampContainment ==
    (Drawn /\ clamp_camera /\ size[1] <= MapRect.w /\ size[2] <= MapRect.h) =>
        \A pos \in drawn.req :
            /\ -padding <= pos[1] /\ pos[1] < data.width + padding
            /\ -padding <= pos[2] /\ pos[2] < data.height + padding

\* ----------------------------------------------------- claims: quadtree
\* C2 (index exactness): hit(Q) on a tree built from the rectangles R with a
\* depth of at least 1, with or without a boundary, is exactly the set of
\* the tuples of the rectangles of R that intersect Q.
C2_IndexExact ==
    op = "hit" =>
        qt_hits = { RectTuple(qt_items[i]) :
                      i \in { k \in 1..Len(qt_items) :
                                CollideRect(qt_query[1], qt_items[k]) } }

\* C2 witness: a tree with sub-quadrants answered a query with some but not
\* all of its rectangles, one of them filed under two sub-quadrants because
\* it straddles a centre line
C2_Witness ==
    /\ op = "hit"
    /\ qt_depth >= 2
    /\ qt_hits # {}
    /\ \E i \in 1..Len(qt_items) : RectTuple(qt_items[i]) \notin qt_hits
    /\ LET tree == FastQuadTree(qt_items, qt_depth, qt_boundary)
       IN  /\ tree.ne # None /\ tree.se # None
           /\ \E i \in 1..Len(qt_items) :
                /\ RectTuple(qt_items[i]) \in qt_hits
                /\ ~InAll(qt_items[i], tree.cx, tree.cy)
                /\ InNE(qt_items[i], tree.cx, tree.cy)
                /\ InSE(qt_items[i], tree.cx, tree.cy)

\* ---------------------------------------------- claims: occlusion repair
\* the map position under cell c of the view
MapPos(c, l) == << c[1] + view.left, c[2] + view.top, l >>

\* where draw() blits cell c of the buffer on the target
CellOnScreen(c) ==
    Rect(c[1] * TileW - offset_x - Area.left,
         c[2] * TileH - offset_y - Area.top, TileW, TileH)

\* drawable number i of the last draw covers part of cell c on the target
CoversCell(i, c) ==
    CollideRect(Clip(drawn.surfaces[i].rect, Area), CellOnScreen(c))

\* a tile of layer l was blitted over cell c after the drawables
TileOver(c, l) ==
    \E i \in 1..Len(drawn.paint) : << c, l >> \in drawn.paint[i]

C6_DepthOrder ==
    (Drawn /\ drawn.surfaces # << >>) =>
        \A c \in ViewCells : \A i \in 1..Len(drawn.surfaces) :
            CoversCell(i, c) =>
                \A k \in 1..Len(data.layers) :
                    LET l == data.layers[k]
                    IN  /\ (l > drawn.surfaces[i].layer
                              /\ GetTileImage(data, MapPos(c, l)) # None)
                            => TileOver(c, l)
                        /\ TileOver(c, l) => l > drawn.surfaces[i].layer

\* ------------------------------------------------------ claims: the queue
\* the entry e occurs in the sequence q
Occurs(e, q) == \E k \in 1..Len(q) : q[k] = e

\* the buffer cell the tile entry e falls on under the present view
CellOf(e) == << e[1] - view.left, e[2] - view.top >>

\* the flushed entries that put an image on the cell c
BlitsOn(c) ==
    { k \in 1..Len(drawn.flushed) :
        /\ CellOf(drawn.flushed[k]) = c
        /\ GetTile(drawn.flushed[k]) # None }

C12_BoundedDrain ==
    [][op' = "update" =>
        /\ raised' = None
        /\ Entries(queue') = SubSeq(Entries(queue),
                                    Min(UpdateRate, Len(Entries(queue))) + 1,
                                    Len(Entries(queue)))]_vars

\* the flushed entries that fall on the cell c, with an image or without
FlushedOn(c) ==
    { k \in 1..Len(drawn.flushed) : CellOf(drawn.flushed[k]) = c }

\* C13: a draw() raises nothing, and a buffer cell whose redrawn positions
\* all have no image at the data source (None, or ValueError out of range)
\* shows the default tile, whose pixels are those of the blank buffer
C13_MissingTileDefault ==
    Drawn =>
        /\ raised = None
        /\ \A c \in DOMAIN buffer :
              (FlushedOn(c) # {} /\ \A k \in FlushedOn(c) :
                                       GetTileImage(data, drawn.flushed[k])
                                           \in { None, ValueError })
                  => buffer[c] \in { DefaultTile, BlankPixels }

\* ------------------------------------------------------- claims: the size
\* C14: a draw() on a renderer whose size was never set infers the size
\* from its target, redraws and completes: it raises nothing, the size is
\* set and the buffer is no longer blank
C14_SizeInferred ==
    [][op' = "draw_unsized" =>
        /\ raised' = None
        /\ size' # None
        /\ buffer' # None
        /\ ~blank']_vars

\* x / y rounded up
CeilDiv(x, y) == (x + y - 1) \div y

\* C15: the size setter, from any state, leaves a blank buffer over the
\* cells of (viewport + padding * tile size) pixels, the view rectangle at
\* (0, 0) with extent ceil(buffer size / tile size), the offsets at zero and
\* the renderer blank and not idle
C15_SizeSetter ==
    [][op' = "size" =>
        /\ DOMAIN buffer' = (0..(CeilDiv(size'[1] + TileW * padding, TileW) - 1))
                              \X (0..(CeilDiv(size'[2] + TileH * padding, TileH) - 1))
        /\ \A c \in DOMAIN buffer' : buffer'[c] = BlankPixels
        /\ view' = Rect(0, 0, CeilDiv(size'[1] + TileW * padding, TileW),
                              CeilDiv(size'[2] + TileH * padding, TileH))
        /\ offset_x' = 0 /\ offset_y' = 0
        /\ blank' /\ ~idle']_vars

\* C16: a draw() that found the buffer blank has flushed every tile of the
\* view rectangle for every visible layer, and leaves the queue empty, the
\* renderer no longer blank and idle, and every cell of the buffer showing
\* the map
C16_FirstDraw ==
    (Drawn /\ drawn.kind = "blank") =>
        /\ { drawn.flushed[k] : k \in 1..Len(drawn.flushed) }
             = { << view.left + c[1], view.top + c[2], data.layers[i] >> :
                   c \in ViewCells, i \in 1..Len(data.layers) }
        /\ queue = None
        /\ ~blank
        /\ idle
        /\ \A c \in DOMAIN buffer : buffer[c] = FreshCell(view.left, view.top, c)

\* C17: queue_tile(position) appends one entry, a triple (x, y, layer), after
\* the entries already queued, and the draws that flush the queue raise
\* nothing
C17_QueueTile ==
    /\ [][op' = "queue_tile" =>
            /\ Len(Entries(queue')) = Len(Entries(queue)) + 1
            /\ SubSeq(Entries(queue'), 1, Len(Entries(queue))) = Entries(queue)
            /\ Unpacks(Entries(queue')[Len(Entries(queue'))])]_vars
    /\ []((Drawn /\ flush_on_draw) => raised = None)

\* ------------------------------------------------- claims: the ScrollGroup
\* C18: a draw of a ScrollGroup that found a point given by center() raises
\* nothing and draws the sprite where the map pixel of the sprite's world
\* position is drawn: the sprite's screen position less its world position
\* is the position on the screen of the world origin,
\* (-(view.left * tile_width + offset_x), ...)
C18_SpriteAligned ==
    (op = "group_draw" /\ drawn.point # None) =>
        /\ raised = None
        /\ drawn.surfaces[1].rect.left - drawn.sprite[1].left
              = -(view.left * TileW + offset_x)
        /\ drawn.surfaces[1].rect.top - drawn.sprite[1].top
              = -(view.top * TileH + offset_y)

\* ------------------------------------------------- claims: tutorial layers
\* C19: in a draw with one drawable of layer d, on every cell the drawable
\* overlaps every tile of a visible layer L >= d is blitted over the
\* drawable, and no tile of a layer below d is
C19_SameOrHigherCovers ==
    (Drawn /\ Len(drawn.surfaces) = 1) =>
        \A c \in ViewCells : \A k \in 1..Len(data.layers) :
            LET l == data.layers[k]
            IN  /\ (/\ CoversCell(1, c)
                    /\ GetTileImage(data, MapPos(c, l)) # None
                    /\ l >= drawn.surfaces[1].layer) => TileOver(c, l)
                /\ TileOver(c, l) => l >= drawn.surfaces[1].layer

\* ---------------------------------------------------------- claims: scroll
\* C20: a draw() that reconciles the camera after one or several scroll()
\* calls finds the centre, before clamping, at the centre the renderer had
\* before those calls plus the sum of their vectors
C20_ScrollDisplaces ==
    (Drawn /\ drawn.kind \in { "same", "moved" } /\ drawn.scrolled # << 0, 0 >>) =>
        /\ PyRound(drawn.point[1]) = drawn.before[1] + drawn.scrolled[1]
        /\ PyRound(drawn.point[2]) = drawn.before[2] + drawn.scrolled[2]

\* ------------------------------------------------------ claims: edge bands
\* the tile columns and rows of the view rectangle
XSpan == view.left..(Right(view) - 1)
YSpan == view.top..(Bottom(view) - 1)

\* the tile (x, y) lies in the view rectangle as it was before the last
\* reconciliation moved it by (drawn.dx, drawn.dy)
InOldView(x, y) ==
    /\ view.left - drawn.dx <= x /\ x < Right(view) - drawn.dx
    /\ view.top - drawn.dy <= y /\ y < Bottom(view) - drawn.dy

\* the tile (x, y) lies in the view rectangle
InView(x, y) ==
    /\ view.left <= x /\ x < Right(view)
    /\ view.top <= y /\ y < Bottom(view)

C22_OnlyNewlyExposed ==
    (Drawn /\ drawn.kind = "moved") =>
        \A k \in 1..Len(drawn.enq) :
            /\ InView(drawn.enq[k][1], drawn.enq[k][2])
            /\ ~InOldView(drawn.enq[k][1], drawn.enq[k][2])

\* ------------------------------------------------- claims: state invariants
\* each pixel offset, less the half-padding margin, lies in [0, tile size)
OffsetInMargin ==
    /\ (padding \div 2) * TileW <= offset_x
    /\ offset_x < (padding \div 2) * TileW + TileW
    /\ (padding \div 2) * TileH <= offset_y
    /\ offset_y < (padding \div 2) * TileH + TileH

\* C23 (pixel-offset invariant): in every state after the size is set, each
\* pixel offset lies in [half_padding * tile_size,
\* half_padding * tile_size + tile_size).
C23_OffsetInvariant ==
    (size # None) => OffsetInMargin

\* C24 (view-rectangle size invariant): once the size is set the view
\* rectangle's extent is ceil(buffer pixel size / tile size), and every
\* operation other than the size setter leaves the extent as it was.
C24_ViewExtent ==
    /\ [](size # None =>
            /\ view.w = CeilDiv(size[1] + TileW * padding, TileW)
            /\ view.h = CeilDiv(size[2] + TileH * padding, TileH))
    /\ [][(size # None /\ op' # "size") =>
            /\ view'.w = view.w
            /\ view'.h = view.h]_vars

\* ------------------------------------------- claims: quadtree construction
\* the number of levels of sub-quadrants below the root of a tree
RECURSIVE Height(_)
Height(tree) ==
    LET Below(sub) == IF sub = None THEN 0 ELSE 1 + Height(sub[1])
    IN  Max(Max(Below(tree.nw), Below(tree.ne)), Max(Below(tree.se), Below(tree.sw)))

\* C25 (quadtree construction): for every item list and every maximum depth
\* from 0 the construction returns a tree, the tree is no deeper than the
\* maximum depth, and with a maximum depth of 0 it is one flat node that
\* holds all the items.
C25_QuadTreeTerminates ==
    op = "build" =>
        /\ raised = None
        /\ Height(FastQuadTree(qt_items, qt_depth, qt_boundary)) <= qt_depth
        /\ qt_depth = 0 =>
              FastQuadTree(qt_items, qt_depth, qt_boundary).items = qt_items

\* ------------------------------------------------- claims: redraw order
\* the queue q walks its cells row by row: rows outermost, then columns,
\* then layers ascending
RowsOuter(q) ==
    \A i, j \in 1..Len(q) : i < j =>
        \/ q[i][2] < q[j][2]
        \/ q[i][2] = q[j][2] /\ q[i][1] < q[j][1]
        \/ q[i][2] = q[j][2] /\ q[i][1] = q[j][1] /\ q[i][3] < q[j][3]

\* the queue q walks its cells column by column: columns outermost, then
\* rows, then layers ascending
ColumnsOuter(q) ==
    \A i, j \in 1..Len(q) : i < j =>
        \/ q[i][1] < q[j][1]
        \/ q[i][1] = q[j][1] /\ q[i][2] < q[j][2]
        \/ q[i][1] = q[j][1] /\ q[i][2] = q[j][2] /\ q[i][3] < q[j][3]

\* in the queue q the layers are innermost and ascending: an entry of a
\* layer below the highest is followed at once by the entry of the same
\* cell on the next visible layer, and a run ends on the highest layer
LayersInnermost(q) ==
    \A k \in 1..Len(q) : \E i \in 1..Len(data.layers) :
        /\ q[k][3] = data.layers[i]
        /\ i < Len(data.layers) =>
              /\ k < Len(q)
              /\ q[k + 1] = << q[k][1], q[k][2], data.layers[i + 1] >>

\* C26 (redraw order): the full-redraw queue drained by the first draw walks
\* rows in the outer loop, columns in the inner loop and layers innermost
\* ascending, and in every queue produced, full redraw and edge bands, the
\* entries of a cell run through the layers in ascending order.
C26_RowsOuter ==
    Drawn =>
        /\ drawn.kind = "blank" => RowsOuter(drawn.flushed)
        /\ LayersInnermost(drawn.flushed)
        /\ LayersInnermost(drawn.enq)

\* C26 as amended: the full-redraw queue walks columns in the outer loop,
\* rows in the inner loop and layers innermost ascending, and in every queue
\* produced the entries of a cell run through the layers in ascending
\* order, so that the last tile drained onto a cell is that of the highest
\* visible layer.
C26_ColumnsOuter ==
    Drawn =>
        /\ drawn.kind = "blank" => ColumnsOuter(drawn.flushed)
        /\ LayersInnermost(drawn.flushed)
        /\ LayersInnermost(drawn.enq)
        /\ \A c \in ViewCells : FlushedOn(c) # {} =>
              \E k \in FlushedOn(c) :
                  /\ \A j \in FlushedOn(c) : j <= k
                  /\ drawn.flushed[k][3] = data.layers[Len(data.layers)]

\* C26 witness: a first draw drained a full-redraw queue over several
\* columns, rows and layers
C26_Witness ==
    /\ Drawn /\ drawn.kind = "blank"
    /\ view.w >= 2 /\ view.h >= 2 /\ Len(data.layers) >= 2
    /\ Len(drawn.flushed) = view.w * view.h * Len(data.layers)

\* ------------------------------------------------- claims: sub-tile move
\* the step is a draw whose reconciliation passed the early return with
\* tile deltas (0, 0)
SubTileMove ==
    /\ op' = "draw"
    /\ drawn'.kind = "moved"
    /\ drawn'.dx = 0 /\ drawn'.dy = 0

\* a draw shifts the view or scrolls the buffer only when its
\* reconciliation found a tile delta of at least one on some axis
ShiftOnlyByTiles ==
    (op' = "draw" /\ (view' # view \/ drawn'.enq # << >>)) =>
        /\ drawn'.kind = "moved"
        /\ Abs(drawn'.dx) >= 1 \/ Abs(drawn'.dy) >= 1

\* C27 (sub-tile move): a reconciliation with tile deltas (0, 0) changes
\* only the pixel offset and the recorded previous centre: view, buffer,
\* queue and every other field of the renderer stay as they were and no
\* tile is asked of the data source; view shift and scroll happen only for
\* a tile delta of at least one.
C27_SubTileOnlyOffset ==
    /\ [][SubTileMove =>
            /\ UNCHANGED << view, buffer, queue, idle, blank, size,
                            half_width, half_height >>
            /\ drawn'.req = {}]_vars
    /\ [][ShiftOnlyByTiles]_vars

\* C27 as amended: a reconciliation with tile deltas (0, 0) changes only
\* the pixel offset, the recorded previous centre and the idle flag, which
\* it clears: view, buffer and queue stay as they were and no tile is asked
\* of the data source; view shift and scroll happen only for a tile delta
\* of at least one.
C27_SubTileClearsIdle ==
    /\ [][SubTileMove =>
            /\ UNCHANGED << view, buffer, queue, blank, size,
                            half_width, half_height >>
            /\ ~idle'
            /\ drawn'.req = {}
            /\ << previous_x', previous_y' >> # << previous_x, previous_y >>]_vars
    /\ [][ShiftOnlyByTiles]_vars

\* C27 witness: a draw reconciled to a new centre less than a tile away:
\* the offset differs from that of the centre before
C27_Witness ==
    /\ Drawn /\ drawn.kind = "moved"
    /\ drawn.dx = 0 /\ drawn.dy = 0
    /\ << previous_x, previous_y >> # drawn.before
    /\ drawn.changed
    /\ ~idle

\* ------------------------------------------------- claims: dirty rectangles
\* C28 (dirty-rectangle soundness): a draw() that returns a partial result
\* (the drawables' rectangles, or None) changed neither the buffer nor the
\* blit offset, reconciled to no different centre, made no full redraw and
\* flushed no queued tile; in each of these cases it returns the whole area.
C28_DirtySound ==
    (Drawn /\ raised = None /\ drawn.dirty # "area") =>
        /\ ~drawn.changed
        /\ drawn.kind \in { "none", "same" }
        /\ drawn.flushed = << >>

====
